---- MODULE Spec2Model ----
(***************************************************************************)
(* Model of lib/data-analytics-infra-stack.ts: the constructor of          *)
(* DataAnalyticsStack.  The constructor is a straight line of construct    *)
(* declarations.  Each declaration binds a local const, registers a        *)
(* construct id under the stack, and may read earlier local consts in its  *)
(* properties (a cross-resource reference).  Reading a const that is not   *)
(* bound yet throws and ends the constructor.                              *)
(***************************************************************************)
EXTENDS Naturals, Sequences, FiniteSets

\* Bounds on the environment values the constructor reads through
\* this.account and this.region: 0 is the unresolved token of an
\* environment-agnostic stack, 1..Max are concrete values.
MaxAccount == 3
MaxRegion == 3

Accounts == 0..MaxAccount
Regions == 0..MaxRegion

\* A local const that has not been initialised yet.
Unbound == "<unbound>"

\* The local consts of the constructor body.
LocalVars ==
    {"vpc", "dmsRole", "dataLakeBucket", "rdsInstance", "redshiftCluster",
     "glueDatabase", "glueCrawler", "transformFunction", "athenaWorkgroup",
     "quickSightDashboard", "cloudWatchAlarm", "trail"}

\* The statement new cdk.CfnOutput(...) binds no local.
NoVar == "<none>"

VARIABLES
    pc,       \* the statement the constructor executes next
    account,  \* this.account
    region,   \* this.region
    locals,   \* local const -> construct id, or Unbound
    nodes,    \* the constructs declared so far, in declaration order
    edges     \* the references: <<a, b>> when b's properties read a

vars == <<pc, account, region, locals, nodes, edges>>

Ref(field, var, attr) == [field |-> field, var |-> var, attr |-> attr]

\* ---- the references each declaration's properties hold ----

NoRefs == {}

RDSInstanceRefs == {Ref("vpc", "vpc", "self")}

RedshiftClusterRefs == {Ref("vpc", "vpc", "self")}

GlueCrawlerRefsLate ==
    {Ref("role", "dmsRole", "roleArn"),
     Ref("databaseName", "glueDatabase", "ref"),
     Ref("targets.s3Targets[0].path", "trail", "bucketName")}

GlueCrawlerRefs ==
    {Ref("role", "dmsRole", "roleArn"),
     Ref("databaseName", "glueDatabase", "ref"),
     Ref("targets.s3Targets[0].path", "dataLakeBucket", "bucketName")}

AthenaWorkgroupRefs ==
    {Ref("workGroupConfiguration.resultConfiguration.outputLocation",
         "dataLakeBucket", "bucketName")}

RedshiftCPUAlarmRefs ==
    {Ref("metric.dimensionsMap.ClusterIdentifier",
         "redshiftCluster", "clusterName")}

CloudTrailRefs == {Ref("bucket", "dataLakeBucket", "self")}

S3BucketURLRefs == {Ref("value", "dataLakeBucket", "bucketWebsiteUrl")}

\* ---- the properties that read this.account / this.region ----

NoEnv == {}

GlueDatabaseEnv == {<<"catalogId", account, 0>>}

QuickSightDashboardEnv ==
    {<<"awsAccountId", account, 0>>,
     <<"sourceEntity.sourceTemplate.arn", account, region>>}

\* ---- one declaration statement ----

\* const var = new Type(this, id, {props}); the properties are evaluated
\* first, so a read of an unbound const throws before anything is declared.
NewConstruct(var, id, type, refs, env, next) ==
    IF \E r \in refs : locals[r.var] = Unbound
    THEN /\ pc' = "threw"
         /\ UNCHANGED <<account, region, locals, nodes, edges>>
    ELSE /\ nodes' = Append(nodes,
                [id |-> id, type |-> type,
                 refs |-> {[field |-> r.field, to |-> locals[r.var],
                            attr |-> r.attr] : r \in refs},
                 env |-> env])
         /\ edges' = edges \cup {<<locals[r.var], id>> : r \in refs}
         /\ locals' = IF var = NoVar THEN locals
                      ELSE [locals EXCEPT ![var] = id]
         /\ pc' = next
         /\ UNCHANGED <<account, region>>

Init ==
    /\ pc = "super"
    /\ account \in Accounts
    /\ region \in Regions
    /\ locals = [v \in LocalVars |-> Unbound]
    /\ nodes = <<>>
    /\ edges = {}

SuperCall ==
    /\ pc = "super"
    /\ pc' = "vpc"
    /\ UNCHANGED <<account, region, locals, nodes, edges>>

DeclareVpc ==
    /\ pc = "vpc"
    /\ NewConstruct("vpc", "AnalyticsVpc", "ec2.Vpc", NoRefs, NoEnv, "dmsRole")

DeclareDMSRole ==
    /\ pc = "dmsRole"
    /\ NewConstruct("dmsRole", "DMSRole", "iam.Role", NoRefs, NoEnv,
                    "dataLakeBucket")

DeclareDataLakeBucket ==
    /\ pc = "dataLakeBucket"
    /\ NewConstruct("dataLakeBucket", "DataLakeBucket", "s3.Bucket", NoRefs,
                    NoEnv, "rdsInstance")

DeclareRDSInstance ==
    /\ pc = "rdsInstance"
    /\ NewConstruct("rdsInstance", "RDSInstance", "rds.DatabaseInstance",
                    RDSInstanceRefs, NoEnv, "redshiftCluster")

DeclareRedshiftCluster ==
    /\ pc = "redshiftCluster"
    /\ NewConstruct("redshiftCluster", "RedshiftCluster", "redshift.Cluster",
                    RedshiftClusterRefs, NoEnv, "glueDatabase")

DeclareGlueDatabase ==
    /\ pc = "glueDatabase"
    /\ NewConstruct("glueDatabase", "GlueDatabase", "glue.CfnDatabase",
                    NoRefs, GlueDatabaseEnv, "glueCrawler")

DeclareGlueCrawler ==
    /\ pc = "glueCrawler"
    /\ NewConstruct("glueCrawler", "GlueCrawler", "glue.CfnCrawler",
                    GlueCrawlerRefs, NoEnv, "transformFunction")

DeclareTransformFunction ==
    /\ pc = "transformFunction"
    /\ NewConstruct("transformFunction", "TransformFunction",
                    "lambda.Function", NoRefs, NoEnv, "athenaWorkgroup")

DeclareAthenaWorkgroup ==
    /\ pc = "athenaWorkgroup"
    /\ NewConstruct("athenaWorkgroup", "AthenaWorkgroup",
                    "athena.CfnWorkGroup", AthenaWorkgroupRefs, NoEnv,
                    "quickSightDashboard")

DeclareQuickSightDashboard ==
    /\ pc = "quickSightDashboard"
    /\ NewConstruct("quickSightDashboard", "QuickSightDashboard",
                    "quicksight.CfnDashboard", NoRefs, QuickSightDashboardEnv,
                    "cloudWatchAlarm")

DeclareRedshiftCPUAlarm ==
    /\ pc = "cloudWatchAlarm"
    /\ NewConstruct("cloudWatchAlarm", "RedshiftCPUAlarm", "cloudwatch.Alarm",
                    RedshiftCPUAlarmRefs, NoEnv, "trail")

DeclareCloudTrail ==
    /\ pc = "trail"
    /\ NewConstruct("trail", "CloudTrail", "cloudtrail.Trail", CloudTrailRefs,
                    NoEnv, "output")

DeclareS3BucketURL ==
    /\ pc = "output"
    /\ NewConstruct(NoVar, "S3BucketURL", "cdk.CfnOutput", S3BucketURLRefs,
                    NoEnv, "done")

Next ==
    \/ SuperCall
    \/ DeclareVpc
    \/ DeclareDMSRole
    \/ DeclareDataLakeBucket
    \/ DeclareRDSInstance
    \/ DeclareRedshiftCluster
    \/ DeclareGlueDatabase
    \/ DeclareGlueCrawler
    \/ DeclareTransformFunction
    \/ DeclareAthenaWorkgroup
    \/ DeclareQuickSightDashboard
    \/ DeclareRedshiftCPUAlarm
    \/ DeclareCloudTrail
    \/ DeclareS3BucketURL

Spec == Init /\ [][Next]_vars

\* ---- the reference graph ----

NodeIds == {nodes[i].id : i \in 1..Len(nodes)}

\* The position at which id was declared (0 when it was not).
Position(id) ==
    IF id \in NodeIds
    THEN CHOOSE i \in 1..Len(nodes) : nodes[i].id = id
    ELSE 0

\* The ids reachable from the set s along edges in at most n steps.
RECURSIVE ReachFrom(_, _)
ReachFrom(s, n) ==
    IF n = 0 THEN s
    ELSE LET step == s \cup {e[2] : e \in {d \in edges : d[1] \in s}}
         IN  IF step = s THEN s ELSE ReachFrom(step, n - 1)

Successors(id) == {e[2] : e \in {d \in edges : d[1] = id}}

OnCycle(id) == id \in ReachFrom(Successors(id), Cardinality(NodeIds) + 1)

\* The references the constructor is said to hold, as <<referenced, referencing>>.
DeclaredReferences ==
    {<<"AnalyticsVpc", "RDSInstance">>,
     <<"AnalyticsVpc", "RedshiftCluster">>,
     <<"DMSRole", "GlueCrawler">>,
     <<"GlueDatabase", "GlueCrawler">>,
     <<"DataLakeBucket", "GlueCrawler">>,
     <<"DataLakeBucket", "AthenaWorkgroup">>,
     <<"DataLakeBucket", "CloudTrail">>,
     <<"DataLakeBucket", "S3BucketURL">>,
     <<"RedshiftCluster", "RedshiftCPUAlarm">>}

\* C10: the dependency graph of DataAnalyticsStack is well-formed.  The
\* constructor never reads an unbound const; every reference <<a, b>> it
\* records has a and b declared in the stack with a declared strictly before
\* b; no construct lies on a reference cycle; every construct's own
\* references are edges of the graph; and when the constructor returns, the
\* references are exactly the nine the claim lists, over thirteen distinct
\* construct ids.
StackGraphWellFormed ==
    /\ pc # "threw"
    /\ \A e \in edges :
          /\ e[1] \in NodeIds
          /\ e[2] \in NodeIds
          /\ Position(e[1]) < Position(e[2])
    /\ \A i \in 1..Len(nodes) :
          \A r \in nodes[i].refs :
             /\ <<r.to, nodes[i].id>> \in edges
             /\ \E j \in 1..(i - 1) : nodes[j].id = r.to
    /\ \A id \in NodeIds : ~OnCycle(id)
    /\ \A i, j \in 1..Len(nodes) : nodes[i].id = nodes[j].id => i = j
    /\ pc = "done" => /\ edges = DeclaredReferences
                      /\ Len(nodes) = 13

\* Witness for C10: the constructor has returned with all nine references
\* recorded, GlueCrawler holding its three.
StackFullyDeclared ==
    /\ pc = "done"
    /\ Cardinality(edges) = 9
    /\ \E i \in 1..Len(nodes) :
          /\ nodes[i].id = "GlueCrawler"
          /\ Cardinality(nodes[i].refs) = 3

====
